---------------------------- MODULE Spec2Model ----------------------------
(***************************************************************************)
(* Residence imputer: the evidence-fusion rules (src/core/fusion.py), the  *)
(* policy constants (src/core/policy.py) and the orchestrator              *)
(* ResidenceImputer.decide (src/core/imputer.py).                          *)
(*                                                                         *)
(* Numbers.  The code computes with floats.  The model computes with exact *)
(* decimals: a policy constant, a model probability and a quality weight   *)
(* are integers in hundredths (0.90 is 90), a confidence is an integer in  *)
(* ten-thousandths (0.72 is 7200), so that a product of two hundredths is  *)
(* a confidence without rounding.  A float that comes from outside (a      *)
(* model probability) or is computed from one is F(n), a finite number, or *)
(* NaN, with Python's arithmetic and comparisons on NaN.                   *)
(*                                                                         *)
(* Optional values.  Python's None is the string None for an optional      *)
(* string, the empty sequence for an optional number (<<F(80)>> is 0.8),   *)
(* and the record NoneEv for an optional evidence.                         *)
(***************************************************************************)
EXTENDS Integers, Sequences, FiniteSets, TLC

VARIABLES
    policy,      \* the module-level policy constants fusion.py computes with
    policy_ms,   \* the time budgets of policy.py
    validated,   \* whether validate_policy was called, and how it ended
    fin,         \* arguments of the direct call of a fusion function
    fres,        \* outcome of that call
    pc,          \* position of decide
    normalizer,  \* whether an AddressNormalizer was injected
    req,         \* arguments of decide
    elapsed,     \* ms on the monotonic clock since t0
    dco_ev,      \* local dco_ev of decide
    sigges_ev,   \* local sigges_ev of decide
    q_sigges,    \* local q_sigges of decide
    nlp_ev,      \* local nlp_ev of decide
    q_nlp,       \* local q_nlp of decide
    core,        \* local core of decide (DecisionCore)
    result,      \* what decide returned or raised
    calls        \* the collaborator calls decide has made, in order

vars == <<policy, policy_ms, validated, fin, fres, pc, normalizer, req, elapsed, dco_ev, sigges_ev,
          q_sigges, nlp_ev, q_nlp, core, result, calls>>

fusion_vars == <<policy, policy_ms, validated, fin, fres>>

orch_vars == <<pc, normalizer, req, elapsed, dco_ev, sigges_ev, q_sigges,
               nlp_ev, q_nlp, core, result, calls>>

-----------------------------------------------------------------------------
(* Policy constants, in hundredths.                                        *)

W_NLP == 90
BOOST_AGREE == 15
ADDR_BONUS_SIGGES == 5
ADDR_BONUS_NLP == 3
NLP_P_DEFAULT == 70
DCO_BASE_CONF == 98
DCO_NO_ADDRESS_PENALTY == 92
SIGGES_ONLY_BASE == 65

PolicyFields ==
    {"W_NLP", "BOOST_AGREE", "ADDR_BONUS_SIGGES", "ADDR_BONUS_NLP",
     "NLP_P_DEFAULT", "DCO_BASE_CONF", "DCO_NO_ADDRESS_PENALTY",
     "SIGGES_ONLY_BASE"}

ShippedPolicy ==
    [W_NLP |-> W_NLP, BOOST_AGREE |-> BOOST_AGREE,
     ADDR_BONUS_SIGGES |-> ADDR_BONUS_SIGGES, ADDR_BONUS_NLP |-> ADDR_BONUS_NLP,
     NLP_P_DEFAULT |-> NLP_P_DEFAULT, DCO_BASE_CONF |-> DCO_BASE_CONF,
     DCO_NO_ADDRESS_PENALTY |-> DCO_NO_ADDRESS_PENALTY,
     SIGGES_ONLY_BASE |-> SIGGES_ONLY_BASE]

\* Values a policy module may set instead of the shipped ones: nothing in
\* fusion.py checks them, so they may lie outside [0,1].
UniformValues == {-150, 0, 100, 300}
OverrideValues == {-50, 250}

Policies ==
    {ShippedPolicy}
    \cup {[W_NLP |-> v, BOOST_AGREE |-> v, ADDR_BONUS_SIGGES |-> v,
           ADDR_BONUS_NLP |-> v, NLP_P_DEFAULT |-> v, DCO_BASE_CONF |-> v,
           DCO_NO_ADDRESS_PENALTY |-> v, SIGGES_ONLY_BASE |-> v]
          : v \in UniformValues}
    \cup {[ShippedPolicy EXCEPT ![f] = v] : f \in PolicyFields, v \in OverrideValues}

\* A time budget of policy.py: its number and whether it is an int.
Ms(n) == [int |-> TRUE, v |-> n]
FloatMs(n) == [int |-> FALSE, v |-> n]

TimeFields == {"GLOBAL_SOFT_MS", "BUDGET_DCO_MS", "BUDGET_SIGGES_MS", "BUDGET_NLP_MS"}

ShippedPolicyMs ==
    [GLOBAL_SOFT_MS |-> Ms(1800), BUDGET_DCO_MS |-> Ms(200),
     BUDGET_SIGGES_MS |-> Ms(200), BUDGET_NLP_MS |-> Ms(900)]

\* The time budgets an edited policy.py may hold: as shipped, or one of them
\* zero, negative or a float.
TimeOverrideValues == {Ms(0), Ms(-1), Ms(1), FloatMs(200)}

PoliciesMs ==
    {ShippedPolicyMs}
    \cup {[ShippedPolicyMs EXCEPT ![f] = v] : f \in TimeFields, v \in TimeOverrideValues}

in01_nonnegative(x) == 0 <= x

\* _in01: 0.0 <= x <= 1.0, x in hundredths
in01(x) == 0 <= x /\ x <= 100

\* validate_policy: ValueError when a weight is outside [0,1] or a time is
\* not an int > 0, otherwise it returns.
validate_policy(pol, ms) ==
    IF \E f \in PolicyFields : ~in01(pol[f])
    THEN "ValueError"
    ELSE IF \E f \in TimeFields : ~ms[f].int \/ ms[f].v <= 0
         THEN "ValueError"
         ELSE "returned"

-----------------------------------------------------------------------------
(* dto.py                                                                   *)

None == "None"
NoP == <<>>

\* float: a finite number or NaN
F(n) == [nan |-> FALSE, v |-> n]
NaN == [nan |-> TRUE, v |-> 0]

\* a * b and a + b: NaN if either is NaN
FMul(a, b) == IF a.nan \/ b.nan THEN NaN ELSE F(a.v * b.v)
FAdd(a, b) == IF a.nan \/ b.nan THEN NaN ELSE F(a.v + b.v)

\* a > b and a < b: False if either is NaN
FGt(a, b) == ~a.nan /\ ~b.nan /\ a.v > b.v
FLt(a, b) == ~a.nan /\ ~b.nan /\ a.v < b.v

AddressQuality == {"EXACT", "PARTIAL", "UNKNOWN"}

NoneEv == [origin |-> None, comuna_code |-> None, address |-> None, p_model |-> NoP]

ResidenceEvidence(origin, comuna_code, address, p_model) ==
    [origin |-> origin, comuna_code |-> comuna_code, address |-> address,
     p_model |-> p_model]

\* Python truthiness of an Optional[str]: None and "" are false.
Truthy(s) == s # None /\ s # ""

\* Python truthiness of an Optional[ResidenceEvidence]: only None is false.
Present(ev) == ev # NoneEv

\* `x or ""`
OrEmpty(s) == IF Truthy(s) THEN s ELSE ""

-----------------------------------------------------------------------------
(* fusion.py                                                                *)

DecisionCore(comuna_code, address, confidence, sources, rule_path) ==
    [comuna_code |-> comuna_code, address |-> address, confidence |-> confidence,
     sources |-> sources, rule_path |-> rule_path, tie_break_reason |-> None]

NoCore == DecisionCore(None, None, F(0), <<>>, None)

Return(d) == [kind |-> "return", core |-> d, error |-> None]
Raise(e) == [kind |-> "raise", core |-> NoCore, error |-> e]
NotCalled == [kind |-> "none", core |-> NoCore, error |-> None]

\* hi if x > hi else lo if x < lo else x, with lo = 0.0 and hi = 1.0
clamp(x) == IF FGt(x, F(10000)) THEN F(10000) ELSE IF FLt(x, F(0)) THEN F(0) ELSE x

quality_to_weight_flat(q) ==
    IF q \in AddressQuality THEN 70 ELSE 0

quality_to_weight(q) ==
    IF q = "EXACT" THEN 100
    ELSE IF q = "PARTIAL" THEN 70
    ELSE IF q = "UNKNOWN" THEN 40
    ELSE 0

default_addr_weight_nlp_as_sigges(source, address) ==
    IF ~Truthy(address) THEN 0 ELSE 70

default_addr_weight(source, address) ==
    IF ~Truthy(address) THEN 0
    ELSE IF source = "SIGGES" THEN 70 ELSE 50

decide_deceased_ignores_address(dco_ev_) ==
    IF ~Present(dco_ev_) \/ dco_ev_.comuna_code = None
    THEN Raise("ValueError")
    ELSE Return(DecisionCore(dco_ev_.comuna_code, OrEmpty(dco_ev_.address),
                             clamp(F(policy.DCO_BASE_CONF * 100)),
                             <<"DCO">>, "DECEASED_DCO"))

decide_deceased(dco_ev_) ==
    IF ~Present(dco_ev_) \/ dco_ev_.comuna_code = None
    THEN Raise("ValueError")
    ELSE LET completeness == IF Truthy(dco_ev_.address) THEN 100
                             ELSE policy.DCO_NO_ADDRESS_PENALTY
             confidence == clamp(F(policy.DCO_BASE_CONF * completeness))
         IN  Return(DecisionCore(dco_ev_.comuna_code, OrEmpty(dco_ev_.address),
                                 confidence, <<"DCO">>, "DECEASED_DCO"))

\* agree = bool(sigges_ev and sigges_ev.comuna_code == nlp_ev.comuna_code)
Agree_any_sigges_comuna(nlp_ev_, sigges_ev_) ==
    Present(sigges_ev_) /\ Truthy(sigges_ev_.comuna_code)

Agree(nlp_ev_, sigges_ev_) ==
    Present(sigges_ev_) /\ sigges_ev_.comuna_code = nlp_ev_.comuna_code

\* q_sigges / q_nlp: the hint's weight when a hint is passed, else the heuristic
AddrWeight(source, hint, address) ==
    IF hint # None THEN quality_to_weight(hint)
    ELSE default_addr_weight(source, address)

\* Caso 1
AliveNlp(nlp_ev_, sigges_ev_, addr_quality_sigges, addr_quality_nlp) ==
    LET agree == Agree(nlp_ev_, sigges_ev_)
        address == IF agree THEN OrEmpty(sigges_ev_.address)
                   ELSE OrEmpty(nlp_ev_.address)
        addr_bonus ==
            IF agree
            THEN F(policy.ADDR_BONUS_SIGGES
                   * AddrWeight("SIGGES", addr_quality_sigges, sigges_ev_.address))
            ELSE F(policy.ADDR_BONUS_NLP
                   * AddrWeight("NLP", addr_quality_nlp, nlp_ev_.address))
        sources == IF agree THEN <<"NLP", "SIGGES">> ELSE <<"NLP">>
        rule_path == IF agree THEN "ALIVE_NLP_AGREE_SIGGES" ELSE "ALIVE_NLP_DISAGREE"
        p == IF nlp_ev_.p_model # NoP THEN nlp_ev_.p_model[1]
             ELSE F(policy.NLP_P_DEFAULT)
        base == FMul(F(policy.W_NLP), p)
        boost == IF agree THEN F(policy.BOOST_AGREE * 100) ELSE F(0)
        confidence == clamp(FAdd(FAdd(base, boost), addr_bonus))
    IN  DecisionCore(nlp_ev_.comuna_code, address, confidence, sources, rule_path)

\* Caso 2
AliveSiggesOnly(sigges_ev_, addr_quality_sigges) ==
    LET address == OrEmpty(sigges_ev_.address)
        q == AddrWeight("SIGGES", addr_quality_sigges, sigges_ev_.address)
        confidence == clamp(F(policy.SIGGES_ONLY_BASE * 100
                              + policy.ADDR_BONUS_SIGGES * q))
    IN  DecisionCore(sigges_ev_.comuna_code, address, confidence,
                     <<"SIGGES">>, "ALIVE_SIGGES_ONLY")

decide_alive_guesses(nlp_ev_, sigges_ev_, addr_quality_sigges, addr_quality_nlp) ==
    IF Present(nlp_ev_) /\ Truthy(nlp_ev_.comuna_code)
    THEN Return(AliveNlp(nlp_ev_, sigges_ev_, addr_quality_sigges, addr_quality_nlp))
    ELSE IF Present(sigges_ev_) /\ Truthy(sigges_ev_.comuna_code)
    THEN Return(AliveSiggesOnly(sigges_ev_, addr_quality_sigges))
    ELSE Return(DecisionCore("13101", "", F(0), <<"SIGGES">>, "ALIVE_SIGGES_ONLY"))

decide_alive_prefers_sigges(nlp_ev_, sigges_ev_, addr_quality_sigges, addr_quality_nlp) ==
    IF Present(sigges_ev_) /\ Truthy(sigges_ev_.comuna_code)
    THEN Return(AliveSiggesOnly(sigges_ev_, addr_quality_sigges))
    ELSE IF Present(nlp_ev_) /\ Truthy(nlp_ev_.comuna_code)
    THEN Return(AliveNlp(nlp_ev_, sigges_ev_, addr_quality_sigges, addr_quality_nlp))
    ELSE Raise("ValueError")

decide_alive(nlp_ev_, sigges_ev_, addr_quality_sigges, addr_quality_nlp) ==
    IF Present(nlp_ev_) /\ Truthy(nlp_ev_.comuna_code)
    THEN Return(AliveNlp(nlp_ev_, sigges_ev_, addr_quality_sigges, addr_quality_nlp))
    ELSE IF Present(sigges_ev_) /\ Truthy(sigges_ev_.comuna_code)
    THEN Return(AliveSiggesOnly(sigges_ev_, addr_quality_sigges))
    ELSE Raise("ValueError")

-----------------------------------------------------------------------------
(* Direct calls of the two fusion functions, over every evidence of a small *)
(* domain.                                                                  *)

ComunaValues == {None, "", "05101", "13101"}
AddressValues == {None, "", "Av. X 100"}
ProbValues == {NoP, <<F(-50)>>, <<F(80)>>, <<F(250)>>, <<NaN>>}
QualityHints == {None} \cup AddressQuality

EvidenceOf(origin, probs) ==
    {NoneEv} \cup {ResidenceEvidence(origin, c, a, p) :
                     c \in ComunaValues, a \in AddressValues, p \in probs}

NoCall == [fn |-> None, dco_ev |-> NoneEv, nlp_ev |-> NoneEv, sigges_ev |-> NoneEv,
           addr_quality_sigges |-> None, addr_quality_nlp |-> None]

CallDecideDeceased ==
    /\ fin = NoCall
    /\ validated # "ValueError"
    /\ \E ev \in EvidenceOf("DCO", {NoP}) :
         /\ fin' = [NoCall EXCEPT !.fn = "decide_deceased", !.dco_ev = ev]
         /\ fres' = decide_deceased(ev)
    /\ UNCHANGED <<policy, policy_ms, validated, orch_vars>>

CallDecideAlive ==
    /\ fin = NoCall
    /\ validated # "ValueError"
    /\ \E nlp \in EvidenceOf("NLP", ProbValues), sg \in EvidenceOf("SIGGES", {NoP}),
          qs \in QualityHints, qn \in QualityHints :
         /\ fin' = [NoCall EXCEPT !.fn = "decide_alive", !.nlp_ev = nlp,
                                  !.sigges_ev = sg, !.addr_quality_sigges = qs,
                                  !.addr_quality_nlp = qn]
         /\ fres' = decide_alive(nlp, sg, qs, qn)
    /\ UNCHANGED <<policy, policy_ms, validated, orch_vars>>

OrchIdle ==
    /\ pc = "idle"
    /\ normalizer = FALSE
    /\ req = [vital_status |-> 0, ges_text |-> None, noges_text |-> None,
              audit_id |-> None]
    /\ elapsed = 0
    /\ dco_ev = NoneEv
    /\ sigges_ev = NoneEv
    /\ q_sigges = None
    /\ nlp_ev = NoneEv
    /\ q_nlp = None
    /\ core = NoCore
    /\ result = [kind |-> "none", error |-> None, decision |-> None]
    /\ calls = <<>>

InitFusion ==
    /\ policy \in Policies
    /\ policy_ms = ShippedPolicyMs
    /\ validated = "not_run"
    /\ fin = NoCall
    /\ fres = NotCalled
    /\ OrchIdle

NextFusion == CallDecideDeceased \/ CallDecideAlive

SpecFusion == InitFusion /\ [][NextFusion]_vars

\* A bootstrap or a test calls validate_policy; nothing in the core does, and
\* the fusion functions take no notice of whether it was called.  A ValueError
\* it raises at startup is taken to end the process.
ValidatePolicy ==
    /\ validated = "not_run"
    /\ fin = NoCall
    /\ validated' = validate_policy(policy, policy_ms)
    /\ UNCHANGED <<policy, policy_ms, fin, fres, orch_vars>>

InitStartup ==
    /\ \/ policy \in Policies /\ policy_ms = ShippedPolicyMs
       \/ policy = ShippedPolicy /\ policy_ms \in PoliciesMs
    /\ validated = "not_run"
    /\ fin = NoCall
    /\ fres = NotCalled
    /\ OrchIdle

NextStartup == ValidatePolicy \/ CallDecideDeceased \/ CallDecideAlive

SpecStartup == InitStartup /\ [][NextStartup]_vars

-----------------------------------------------------------------------------
(* imputer.py: ResidenceImputer.decide, one action per collaborator call    *)
(* and one per fusion call.  A collaborator is the environment: a connector *)
(* returns an evidence (or None) or raises, after some time; the normalizer *)
(* returns (address_std, quality) or raises; the catalog is a fixed table   *)
(* that raises DataQualityError on a code it does not know.                 *)

GLOBAL_SOFT_MS == 1800
BUDGET_DCO_MS == 200
BUDGET_SIGGES_MS == 200
BUDGET_NLP_MS == 900

\* The time a connector call may take: a multiple of TickMs up to MaxTicks.
TickMs == 1000
MaxTicks == 2
Durations == {k * TickMs : k \in 0..MaxTicks}

ErrorKinds == {"TimeoutError", "NotFoundError", "DataQualityError", "AuthError"}

OrchComunaValues == {None, "05101", "13101", "99999"}
OrchAddressValues == {None, "Av. X 100"}
VitalStatusValues == {1, 2}
GesTextValues == {None, "", "ges"}
NogesTextValues == {None, "noges"}
AuditIds == {"audit-1", "audit-2"}

\* What a connector call can do: return an evidence or None, or raise.
Returned(ev) == [ok |-> TRUE, ev |-> ev, err |-> None]
Raised(e) == [ok |-> FALSE, ev |-> NoneEv, err |-> e]

ConnectorOutcomes(origin, comunas, probs) ==
    {Returned(NoneEv)}
    \cup {Returned(ResidenceEvidence(origin, c, a, p)) :
            c \in comunas, a \in OrchAddressValues, p \in probs}
    \cup {Raised(e) : e \in ErrorKinds}

\* What normalize can do: return (address_std, quality) or raise.
NormalizerOutcomes ==
    {[ok |-> TRUE, std |-> "AV X 100", q |-> q, err |-> None] : q \in {"EXACT", "UNKNOWN"}}
    \cup {[ok |-> FALSE, std |-> None, q |-> None, err |-> "DataQualityError"]}

\* MapperCatalog: a table of two comunas.
KnownComunas == {"05101", "13101"}
to_region_code(comuna_code) == IF comuna_code = "05101" THEN "05" ELSE "13"
to_comuna_name(comuna_code) == IF comuna_code = "05101" THEN "Valparaiso" ELSE "Santiago"
to_region_name(region_code) == IF region_code = "05" THEN "Valparaiso" ELSE "Metropolitana"

\* A collaborator call as made: the port, the deadline passed (0 where the
\* port takes none), the arguments, "return" or the exception raised, and the
\* evidence a connector returned.
Call(port, deadline_ms, arg, outcome, ret) ==
    [port |-> port, deadline_ms |-> deadline_ms, arg |-> arg, outcome |-> outcome,
     ret |-> ret]

NoResult == [kind |-> "none", error |-> None, decision |-> None]
NoRequest == [vital_status |-> 0, ges_text |-> None, noges_text |-> None,
              audit_id |-> None]

Min(a, b) == IF a < b THEN a ELSE b

remaining_ms_unfloored == GLOBAL_SOFT_MS - elapsed

\* max(0, global_soft_ms - elapsed)
remaining_ms ==
    LET rem == GLOBAL_SOFT_MS - elapsed
    IN  IF rem < 0 THEN 0 ELSE rem

\* texts = [t for t in (ges_text, noges_text) if t]
Texts(r) ==
    (IF Truthy(r.ges_text) THEN <<r.ges_text>> ELSE <<>>)
    \o (IF Truthy(r.noges_text) THEN <<r.noges_text>> ELSE <<>>)

\* decide is entered: t0 is taken and the path chosen by vital_status.
Start ==
    /\ pc = "idle"
    /\ \E vs \in VitalStatusValues, g \in GesTextValues, n \in NogesTextValues,
          a \in AuditIds :
         req' = [vital_status |-> vs, ges_text |-> g, noges_text |-> n, audit_id |-> a]
    /\ elapsed' = 0
    /\ pc' = IF req'.vital_status = 2 THEN "dco_fetch" ELSE "sigges_fetch"
    /\ UNCHANGED <<fusion_vars, normalizer, dco_ev, sigges_ev, q_sigges,
                   nlp_ev, q_nlp, core, result, calls>>

\* _safe_fetch_dco, `except Exception as ex: raise ValueError(...) from ex`:
\* what is raised for the connector's exception ex.
DcoFetchError_reraised(ex) == ex

DcoFetchError(ex) == "ValueError"

\* `except Exception:` of the two alive-path helpers: every exception a
\* collaborator raises is an Exception.
ExceptException_timeout_only(ex) == ex = "TimeoutError"

ExceptException(ex) == TRUE

\* _safe_fetch_dco: any exception of the connector is raised as ValueError.
FetchDco ==
    /\ pc = "dco_fetch"
    /\ \E out \in ConnectorOutcomes("DCO", {None, "", "05101", "99999"}, {NoP}),
          d \in Durations :
         /\ calls' = Append(calls, Call("dco.fetch", Min(BUDGET_DCO_MS, remaining_ms),
                                        <<>>, IF out.ok THEN "return" ELSE out.err,
                                        out.ev))
         /\ elapsed' = elapsed + d
         /\ IF ~out.ok
            THEN /\ result' = [kind |-> "raise", error |-> DcoFetchError(out.err),
                               decision |-> None]
                 /\ pc' = "raised"
                 /\ UNCHANGED dco_ev
            ELSE /\ dco_ev' = out.ev
                 /\ IF normalizer /\ ~Present(out.ev)
                    THEN \* dco_ev.address on None
                         /\ result' = [kind |-> "raise", error |-> "AttributeError",
                                       decision |-> None]
                         /\ pc' = "raised"
                    ELSE /\ pc' = IF normalizer /\ Truthy(out.ev.address)
                                  THEN "dco_normalize" ELSE "deceased_fuse"
                         /\ UNCHANGED result
    /\ UNCHANGED <<fusion_vars, normalizer, req, sigges_ev, q_sigges,
                   nlp_ev, q_nlp, core>>

\* std, _ = self._normalizer.normalize(dco_ev.address); dco_ev.address = std
NormalizeDco ==
    /\ pc = "dco_normalize"
    /\ \E out \in NormalizerOutcomes :
         /\ calls' = Append(calls, Call("normalizer.normalize", 0, <<dco_ev.address>>,
                                        IF out.ok THEN "return" ELSE out.err, NoneEv))
         /\ IF out.ok
            THEN /\ dco_ev' = [dco_ev EXCEPT !.address = out.std]
                 /\ pc' = "deceased_fuse"
                 /\ UNCHANGED result
            ELSE /\ result' = [kind |-> "raise", error |-> out.err, decision |-> None]
                 /\ pc' = "raised"
                 /\ UNCHANGED dco_ev
    /\ UNCHANGED <<fusion_vars, normalizer, req, elapsed, sigges_ev, q_sigges,
                   nlp_ev, q_nlp, core>>

\* core = decide_deceased(dco_ev)
FuseDeceased ==
    /\ pc = "deceased_fuse"
    /\ LET r == decide_deceased(dco_ev)
       IN  IF r.kind = "return"
           THEN /\ core' = r.core
                /\ pc' = "complete"
                /\ UNCHANGED result
           ELSE /\ result' = [kind |-> "raise", error |-> r.error, decision |-> None]
                /\ pc' = "raised"
                /\ UNCHANGED core
    /\ UNCHANGED <<fusion_vars, normalizer, req, elapsed, dco_ev, sigges_ev,
                   q_sigges, nlp_ev, q_nlp, calls>>

AfterSigges_skips_when_budget_spent ==
    IF Texts(req) # <<>> /\ remaining_ms > 0 THEN "nlp_infer" ELSE "alive_fuse"

\* After the claims-system step: the text-inference connector is called iff
\* texts is non-empty, else (nlp_ev, q_nlp) = (None, None).
AfterSigges == IF Texts(req) # <<>> THEN "nlp_infer" ELSE "alive_fuse"

\* _safe_fetch_sigges_with_quality, up to the call of the normalizer.
FetchSigges ==
    /\ pc = "sigges_fetch"
    /\ \E out \in ConnectorOutcomes("SIGGES", OrchComunaValues, {NoP}),
          d \in Durations :
         /\ calls' = Append(calls, Call("sigges.fetch",
                                        Min(BUDGET_SIGGES_MS, remaining_ms), <<>>,
                                        IF out.ok THEN "return" ELSE out.err, out.ev))
         /\ elapsed' = elapsed + d
         /\ sigges_ev' = out.ev
         /\ IF ~out.ok /\ ~ExceptException(out.err)
            THEN /\ result' = [kind |-> "raise", error |-> out.err, decision |-> None]
                 /\ pc' = "raised"
            ELSE /\ pc' = IF out.ok /\ Present(out.ev) /\ Truthy(out.ev.address)
                              /\ normalizer
                           THEN "sigges_normalize" ELSE AfterSigges
                 /\ UNCHANGED result
    /\ q_sigges' = None
    /\ UNCHANGED <<fusion_vars, normalizer, req, dco_ev, nlp_ev, q_nlp, core>>

OnNormalizeError_keeps_evidence(ev) == ev

\* except Exception: ev, q = None, None -- the evidence the connector had
\* returned is replaced by None.
OnNormalizeError(ev) == NoneEv

\* std, q = normalize(ev.address); ev.address = std -- inside the same try:
\* an exception of the normalizer gives (None, None).
NormalizeSigges ==
    /\ pc = "sigges_normalize"
    /\ \E out \in NormalizerOutcomes :
         /\ calls' = Append(calls, Call("normalizer.normalize", 0, <<sigges_ev.address>>,
                                        IF out.ok THEN "return" ELSE out.err, NoneEv))
         /\ IF out.ok
            THEN /\ sigges_ev' = [sigges_ev EXCEPT !.address = out.std]
                 /\ q_sigges' = out.q
                 /\ pc' = AfterSigges
                 /\ UNCHANGED result
            ELSE IF ExceptException(out.err)
            THEN /\ sigges_ev' = OnNormalizeError(sigges_ev)
                 /\ q_sigges' = None
                 /\ pc' = AfterSigges
                 /\ UNCHANGED result
            ELSE /\ result' = [kind |-> "raise", error |-> out.err, decision |-> None]
                 /\ pc' = "raised"
                 /\ UNCHANGED <<sigges_ev, q_sigges>>
    /\ UNCHANGED <<fusion_vars, normalizer, req, elapsed, dco_ev, nlp_ev,
                   q_nlp, core>>

\* _safe_infer_nlp_with_quality, up to the call of the normalizer.
InferNlp ==
    /\ pc = "nlp_infer"
    /\ \E out \in ConnectorOutcomes("NLP", OrchComunaValues, {<<F(80)>>}),
          d \in Durations :
         /\ calls' = Append(calls, Call("nlp.infer", Min(BUDGET_NLP_MS, remaining_ms),
                                        Texts(req),
                                        IF out.ok THEN "return" ELSE out.err, out.ev))
         /\ elapsed' = elapsed + d
         /\ nlp_ev' = out.ev
         /\ IF ~out.ok /\ ~ExceptException(out.err)
            THEN /\ result' = [kind |-> "raise", error |-> out.err, decision |-> None]
                 /\ pc' = "raised"
            ELSE /\ pc' = IF out.ok /\ Present(out.ev) /\ Truthy(out.ev.address)
                              /\ normalizer
                           THEN "nlp_normalize" ELSE "alive_fuse"
                 /\ UNCHANGED result
    /\ q_nlp' = None
    /\ UNCHANGED <<fusion_vars, normalizer, req, dco_ev, sigges_ev, q_sigges,
                   core>>

NormalizeNlp ==
    /\ pc = "nlp_normalize"
    /\ \E out \in NormalizerOutcomes :
         /\ calls' = Append(calls, Call("normalizer.normalize", 0, <<nlp_ev.address>>,
                                        IF out.ok THEN "return" ELSE out.err, NoneEv))
         /\ IF out.ok
            THEN /\ nlp_ev' = [nlp_ev EXCEPT !.address = out.std]
                 /\ q_nlp' = out.q
                 /\ pc' = "alive_fuse"
                 /\ UNCHANGED result
            ELSE IF ExceptException(out.err)
            THEN /\ nlp_ev' = OnNormalizeError(nlp_ev)
                 /\ q_nlp' = None
                 /\ pc' = "alive_fuse"
                 /\ UNCHANGED result
            ELSE /\ result' = [kind |-> "raise", error |-> out.err, decision |-> None]
                 /\ pc' = "raised"
                 /\ UNCHANGED <<nlp_ev, q_nlp>>
    /\ UNCHANGED <<fusion_vars, normalizer, req, elapsed, dco_ev, sigges_ev,
                   q_sigges, core>>

\* core = decide_alive(nlp_ev, sigges_ev, addr_quality_sigges=q_sigges,
\*                     addr_quality_nlp=q_nlp)
FuseAlive ==
    /\ pc = "alive_fuse"
    /\ LET r == decide_alive(nlp_ev, sigges_ev, q_sigges, q_nlp)
       IN  IF r.kind = "return"
           THEN /\ core' = r.core
                /\ pc' = "complete"
                /\ UNCHANGED result
           ELSE /\ result' = [kind |-> "raise", error |-> r.error, decision |-> None]
                /\ pc' = "raised"
                /\ UNCHANGED core
    /\ UNCHANGED <<fusion_vars, normalizer, req, elapsed, dco_ev, sigges_ev,
                   q_sigges, nlp_ev, q_nlp, calls>>

Decision(region, region_code, comuna, comuna_code, address, confidence, sources, audit_id) ==
    [region |-> region, region_code |-> region_code, comuna |-> comuna,
     comuna_code |-> comuna_code, address |-> address, confidence |-> confidence,
     sources |-> sources, audit_id |-> audit_id]

FinalDecision_region_of_comuna_code(c, audit_id) ==
    Decision(to_region_name(c.comuna_code), to_region_code(c.comuna_code),
             to_comuna_name(c.comuna_code), c.comuna_code, OrEmpty(c.address),
             c.confidence, c.sources, audit_id)

\* The Decision _complete_decision builds from the fusion result: the region
\* code and both names come from the catalog, the rest from the core.
FinalDecision(c, audit_id) ==
    Decision(to_region_name(to_region_code(c.comuna_code)),
             to_region_code(c.comuna_code), to_comuna_name(c.comuna_code),
             c.comuna_code, OrEmpty(c.address), c.confidence, c.sources, audit_id)

\* _complete_decision: the three catalog lookups, then the Decision.
CompleteDecision ==
    /\ pc = "complete"
    /\ LET comuna_code == core.comuna_code
       IN  IF comuna_code \notin KnownComunas
           THEN /\ calls' = Append(calls, Call("mapper.to_region_code", 0,
                                               <<comuna_code>>, "DataQualityError", NoneEv))
                /\ result' = [kind |-> "raise", error |-> "DataQualityError",
                              decision |-> None]
                /\ pc' = "raised"
           ELSE /\ calls' = calls \o
                     << Call("mapper.to_region_code", 0, <<comuna_code>>,
                             "return", NoneEv),
                        Call("mapper.to_comuna_name", 0, <<comuna_code>>,
                             "return", NoneEv),
                        Call("mapper.to_region_name", 0,
                             <<to_region_code(comuna_code)>>, "return", NoneEv) >>
                /\ result' = [kind |-> "return", error |-> None,
                              decision |-> FinalDecision(core, req.audit_id)]
                /\ pc' = "returned"
    /\ UNCHANGED <<fusion_vars, normalizer, req, elapsed, dco_ev, sigges_ev,
                   q_sigges, nlp_ev, q_nlp, core>>

Init ==
    /\ policy = ShippedPolicy
    /\ policy_ms = ShippedPolicyMs
    /\ validated = "not_run"
    /\ fin = NoCall
    /\ fres = NotCalled
    /\ pc = "idle"
    /\ normalizer \in BOOLEAN
    /\ req = NoRequest
    /\ elapsed = 0
    /\ dco_ev = NoneEv
    /\ sigges_ev = NoneEv
    /\ q_sigges = None
    /\ nlp_ev = NoneEv
    /\ q_nlp = None
    /\ core = NoCore
    /\ result = NoResult
    /\ calls = <<>>

Next ==
    \/ Start
    \/ FetchDco
    \/ NormalizeDco
    \/ FuseDeceased
    \/ FetchSigges
    \/ NormalizeSigges
    \/ InferNlp
    \/ NormalizeNlp
    \/ FuseAlive
    \/ CompleteDecision

Spec == Init /\ [][Next]_vars

-----------------------------------------------------------------------------
(* Properties of the fusion functions, checked under SpecFusion.           *)

\* The evidence supplies a comuna code: it is present and its code is neither
\* None nor empty.
SuppliesComuna(ev) == ev # NoneEv /\ ev.comuna_code # None /\ ev.comuna_code # ""

\* x or "", for an address
AddressOrEmpty(a) == IF a = None THEN "" ELSE a

\* The finite number x limited to [0,1], in ten-thousandths.
Unit(x) == F(IF x < 0 THEN 0 ELSE IF x > 10000 THEN 10000 ELSE x)

\* The quality weight of the claims: the hint's weight when a hint is given,
\* otherwise 0 without address text and `heuristic` with it.
QualityWeight(hint, address, heuristic) ==
    CASE hint = "EXACT" -> 100
      [] hint = "PARTIAL" -> 70
      [] hint = "UNKNOWN" -> 40
      [] OTHER -> IF address = None \/ address = "" THEN 0 ELSE heuristic

AgreementOf(nlp, sg) == sg # NoneEv /\ sg.comuna_code = nlp.comuna_code

\* C1: every decision returned by decide_deceased or decide_alive, under every
\* policy (values outside [0,1] included) and every evidence (probabilities
\* outside [0,1] included), has 0 <= confidence <= 1.
C1_ConfidenceInUnitInterval ==
    fres.kind = "return" =>
        /\ ~fres.core.confidence.nan
        /\ fres.core.confidence.v >= 0
        /\ fres.core.confidence.v <= 10000

\* What holds instead: with a model probability that is absent or a number,
\* whatever its range and whatever the policy, the confidence is in [0,1].
C1_NumbersAreClamped ==
    (fres.kind = "return" /\ (fin.nlp_ev.p_model = NoP \/ ~fin.nlp_ev.p_model[1].nan))
    => /\ ~fres.core.confidence.nan
       /\ fres.core.confidence.v >= 0
       /\ fres.core.confidence.v <= 10000

\* C2: a fusion function either fails or returns a decision whose comuna_code
\* is non-empty, whether the evidence's comuna_code is None, "" or a code.
C2_ComunaCodeNonEmpty ==
    fin.fn # None =>
        \/ fres.kind = "raise"
        \/ /\ fres.kind = "return"
           /\ fres.core.comuna_code # None
           /\ fres.core.comuna_code # ""

\* C3: decide_alive raises the insufficient-evidence error, and returns no
\* decision, whenever neither evidence supplies a comuna code.
C3_NoComunaRaises ==
    (/\ fin.fn = "decide_alive"
     /\ ~SuppliesComuna(fin.nlp_ev)
     /\ ~SuppliesComuna(fin.sigges_ev))
    => fres = Raise("ValueError")

\* Text-inference evidence present without a comuna, claims evidence absent.
C3_Witness ==
    /\ fin.fn = "decide_alive"
    /\ fin.nlp_ev # NoneEv
    /\ fin.nlp_ev.comuna_code = None
    /\ fin.nlp_ev.address = "Av. X 100"
    /\ fin.sigges_ev = NoneEv
    /\ fres.kind = "raise"

C5_NlpBranch ==
    (fin.fn = "decide_alive" /\ SuppliesComuna(fin.nlp_ev)) =>
        /\ fres.kind = "return"
        /\ fres.core.comuna_code = fin.nlp_ev.comuna_code
        /\ IF AgreementOf(fin.nlp_ev, fin.sigges_ev)
           THEN /\ fres.core.rule_path = "ALIVE_NLP_AGREE_SIGGES"
                /\ fres.core.sources = <<"NLP", "SIGGES">>
                /\ fres.core.address = AddressOrEmpty(fin.sigges_ev.address)
           ELSE /\ fres.core.rule_path = "ALIVE_NLP_DISAGREE"
                /\ fres.core.sources = <<"NLP">>
                /\ fres.core.address = AddressOrEmpty(fin.nlp_ev.address)

\* Claims evidence present with a different comuna and an address of its own:
\* the disagreement branch, with the text-inference address ("" here).
C5_Witness ==
    /\ fin.fn = "decide_alive"
    /\ fin.nlp_ev # NoneEv
    /\ fin.nlp_ev.comuna_code = "13101"
    /\ fin.nlp_ev.address = None
    /\ fin.sigges_ev # NoneEv
    /\ fin.sigges_ev.comuna_code = "05101"
    /\ fin.sigges_ev.address = "Av. X 100"
    /\ fres.kind = "return"
    /\ fres.core.rule_path = "ALIVE_NLP_DISAGREE"
    /\ fres.core.address = ""

\* C6: in the text-inference branch, confidence = clamp(W_NLP x p + (BOOST_AGREE
\* on agreement) + address bonus), p the model probability or NLP_P_DEFAULT,
\* the bonus ADDR_BONUS_SIGGES (agreement) or ADDR_BONUS_NLP (disagreement)
\* times the weight: EXACT 1.0, PARTIAL 0.7, UNKNOWN 0.4 with a hint, else 0.0
\* without address text, 0.7 for a claims address, 0.5 for a text-inference
\* address.  Comuna 05101, probability 0.8, no address (and so no hint), no
\* claims evidence: 0.72.  (clamp of a NaN sum is the NaN itself.)
C6_NlpConfidence ==
    (fin.fn = "decide_alive" /\ SuppliesComuna(fin.nlp_ev)) =>
        LET agree == AgreementOf(fin.nlp_ev, fin.sigges_ev)
            p == IF fin.nlp_ev.p_model = NoP THEN F(policy.NLP_P_DEFAULT)
                 ELSE fin.nlp_ev.p_model[1]
            bonus == IF agree
                     THEN policy.ADDR_BONUS_SIGGES
                          * QualityWeight(fin.addr_quality_sigges,
                                          fin.sigges_ev.address, 70)
                     ELSE policy.ADDR_BONUS_NLP
                          * QualityWeight(fin.addr_quality_nlp,
                                          fin.nlp_ev.address, 50)
        IN  /\ fres.kind = "return"
            /\ ~p.nan =>
                 fres.core.confidence =
                   Unit(policy.W_NLP * p.v
                        + (IF agree THEN policy.BOOST_AGREE * 100 ELSE 0) + bonus)
            /\ p.nan => fres.core.confidence.nan
            /\ (/\ policy = ShippedPolicy
                /\ fin.nlp_ev.comuna_code = "05101"
                /\ fin.nlp_ev.p_model = <<F(80)>>
                /\ fin.nlp_ev.address = None
                /\ fin.addr_quality_nlp = None
                /\ fin.sigges_ev = NoneEv)
               => fres.core.confidence = F(7200)

\* Disagreement with a text-inference address and no hint: the 0.5 heuristic,
\* 0.90 x 0.8 + 0.03 x 0.5 = 0.735.
C6_Witness ==
    /\ fin.fn = "decide_alive"
    /\ policy = ShippedPolicy
    /\ fin.nlp_ev # NoneEv
    /\ fin.nlp_ev.comuna_code = "05101"
    /\ fin.nlp_ev.p_model = <<F(80)>>
    /\ fin.nlp_ev.address = "Av. X 100"
    /\ fin.addr_quality_nlp = None
    /\ fin.sigges_ev = NoneEv
    /\ fres.kind = "return"
    /\ fres.core.confidence = F(7350)

\* The scenario of C7: shipped policy, text inference comuna 05101 with
\* probability 0.8, claims comuna 05101 with address "Av. X 100", quality EXACT.
C7_Scenario ==
    /\ fin.fn = "decide_alive"
    /\ policy = ShippedPolicy
    /\ fin.nlp_ev # NoneEv
    /\ fin.nlp_ev.comuna_code = "05101"
    /\ fin.nlp_ev.p_model = <<F(80)>>
    /\ fin.sigges_ev # NoneEv
    /\ fin.sigges_ev.comuna_code = "05101"
    /\ fin.sigges_ev.address = "Av. X 100"
    /\ fin.addr_quality_sigges = "EXACT"

\* C7 as stated: the scenario returns agreement, sources [NLP, SIGGES] and
\* confidence 1.0.
C7_AsStated ==
    C7_Scenario =>
        /\ fres.kind = "return"
        /\ fres.core.rule_path = "ALIVE_NLP_AGREE_SIGGES"
        /\ fres.core.sources = <<"NLP", "SIGGES">>
        /\ fres.core.confidence = F(10000)

\* C7 amended: the scenario returns agreement, sources [NLP, SIGGES] and
\* confidence 0.90 x 0.8 + 0.15 + 0.05 x 1.0 = 0.92, which the clamp leaves.
C7_Amended ==
    C7_Scenario =>
        /\ fres.kind = "return"
        /\ fres.core.rule_path = "ALIVE_NLP_AGREE_SIGGES"
        /\ fres.core.sources = <<"NLP", "SIGGES">>
        /\ fres.core.confidence = F(9200)

C7_Witness ==
    /\ C7_Scenario
    /\ fres.kind = "return"
    /\ fres.core.address = "Av. X 100"
    /\ fres.core.confidence = F(9200)

\* C8: when the text-inference evidence supplies no comuna code and the claims
\* evidence supplies one, the decision has the claims comuna and address (or
\* ""), sources [SIGGES], rule_path ALIVE_SIGGES_ONLY and confidence
\* clamp(SIGGES_ONLY_BASE + ADDR_BONUS_SIGGES x weight); when the text-inference
\* evidence has a comuna, the decision's comuna is never taken from the claims
\* evidence.
C8_SiggesOnly ==
    fin.fn = "decide_alive" =>
        /\ (~SuppliesComuna(fin.nlp_ev) /\ SuppliesComuna(fin.sigges_ev)) =>
             /\ fres.kind = "return"
             /\ fres.core.comuna_code = fin.sigges_ev.comuna_code
             /\ fres.core.address = AddressOrEmpty(fin.sigges_ev.address)
             /\ fres.core.sources = <<"SIGGES">>
             /\ fres.core.rule_path = "ALIVE_SIGGES_ONLY"
             /\ fres.core.confidence =
                  Unit(policy.SIGGES_ONLY_BASE * 100
                       + policy.ADDR_BONUS_SIGGES
                         * QualityWeight(fin.addr_quality_sigges,
                                         fin.sigges_ev.address, 70))
        /\ SuppliesComuna(fin.nlp_ev) =>
             /\ fres.kind = "return"
             /\ fres.core.comuna_code = fin.nlp_ev.comuna_code
             /\ fres.core.rule_path # "ALIVE_SIGGES_ONLY"
             /\ fres.core.sources # <<"SIGGES">>

\* Text-inference evidence present with an empty comuna, claims evidence with
\* comuna 13101, an address and the hint PARTIAL: 0.65 + 0.05 x 0.7 = 0.685.
C8_Witness ==
    /\ fin.fn = "decide_alive"
    /\ policy = ShippedPolicy
    /\ fin.nlp_ev # NoneEv
    /\ fin.nlp_ev.comuna_code = ""
    /\ fin.sigges_ev # NoneEv
    /\ fin.sigges_ev.comuna_code = "13101"
    /\ fin.sigges_ev.address = "Av. X 100"
    /\ fin.addr_quality_sigges = "PARTIAL"
    /\ fres.kind = "return"
    /\ fres.core.sources = <<"SIGGES">>
    /\ fres.core.confidence = F(6850)

-----------------------------------------------------------------------------
(* Properties of decide, checked under Spec.                                *)

Alive == pc # "idle" /\ req.vital_status # 2
Deceased == pc # "idle" /\ req.vital_status = 2
Finished == pc \in {"returned", "raised"}

CallsOf(port) == {i \in 1..Len(calls) : calls[i].port = port}
Failed(port) == \E i \in CallsOf(port) : calls[i].outcome # "return"

\* The connector was called and returned an evidence whose comuna the catalog
\* knows.
ReturnedKnown(port) ==
    \E i \in CallsOf(port) :
        /\ calls[i].outcome = "return"
        /\ calls[i].ret # NoneEv
        /\ calls[i].ret.comuna_code \in KnownComunas

ComunaReturnedBy(port) ==
    calls[CHOOSE i \in CallsOf(port) : calls[i].outcome = "return"].ret.comuna_code

NormalizerFailed ==
    \E i \in CallsOf("normalizer.normalize") : calls[i].outcome # "return"

\* A failure of either alive-path connector does not propagate: the source is
\* absent from then on, and the only errors decide raises on this path are
\* raised later, by the fusion (insufficient evidence, with no comuna from
\* either source) or by the catalog lookup.
C9_ConnectorFailureDegrades ==
    Alive =>
        /\ Failed("sigges.fetch") => sigges_ev = NoneEv /\ q_sigges = None
        /\ Failed("nlp.infer") => nlp_ev = NoneEv /\ q_nlp = None
        /\ result.kind = "raise" =>
             \/ /\ result.error = "ValueError"
                /\ ~SuppliesComuna(nlp_ev)
                /\ ~SuppliesComuna(sigges_ev)
             \/ /\ result.error = "DataQualityError"
                /\ calls[Len(calls)].port = "mapper.to_region_code"

\* One connector failed, the other returned a comuna the catalog knows, and
\* decide has returned a decision built from the surviving source alone.
C9_SurvivorDecides ==
    /\ (Failed("sigges.fetch") /\ ReturnedKnown("nlp.infer")) =>
         /\ result.kind = "return"
         /\ result.decision.sources = <<"NLP">>
         /\ result.decision.comuna_code = ComunaReturnedBy("nlp.infer")
    /\ (Failed("nlp.infer") /\ ReturnedKnown("sigges.fetch")) =>
         /\ result.kind = "return"
         /\ result.decision.sources = <<"SIGGES">>
         /\ result.decision.comuna_code = ComunaReturnedBy("sigges.fetch")

C10_DcoFailureFatal ==
    Deceased =>
        /\ CallsOf("sigges.fetch") = {}
        /\ CallsOf("nlp.infer") = {}
        /\ Failed("dco.fetch") =>
             /\ pc = "raised"
             /\ result = [kind |-> "raise", error |-> "ValueError", decision |-> None]
             /\ core = NoCore
             /\ Len(calls) = 1
             /\ calls[1].outcome \in ErrorKinds

\* The registry connector failed with an auth error and decide raised.
C10_Witness ==
    /\ Deceased
    /\ Len(calls) = 1
    /\ calls[1].port = "dco.fetch"
    /\ calls[1].outcome = "AuthError"
    /\ pc = "raised"
    /\ result.error = "ValueError"

\* C11: every decision decide returns carries the fusion result's comuna code,
\* address, confidence and sources unchanged and the request's audit id
\* verbatim; its region code is the catalog's region code of that comuna code,
\* its comuna name the catalog's name of that comuna code, and its region name
\* the catalog's name of that region code.
C11_DecisionCompleted ==
    (pc = "returned") =>
        /\ result.kind = "return"
        /\ core # NoCore
        /\ result.decision.comuna_code = core.comuna_code
        /\ result.decision.address = core.address
        /\ result.decision.confidence = core.confidence
        /\ result.decision.sources = core.sources
        /\ result.decision.audit_id = req.audit_id
        /\ result.decision.region_code = to_region_code(result.decision.comuna_code)
        /\ result.decision.comuna = to_comuna_name(result.decision.comuna_code)
        /\ result.decision.region = to_region_name(result.decision.region_code)

\* decide returned, for the request audited as audit-2, a decision for comuna
\* 05101 of region 05 with a standardized address.
C11_Witness ==
    /\ pc = "returned"
    /\ req.audit_id = "audit-2"
    /\ result.decision.audit_id = "audit-2"
    /\ result.decision.comuna_code = "05101"
    /\ result.decision.region_code = "05"
    /\ result.decision.region = "Valparaiso"
    /\ result.decision.address = "AV X 100"

\* C12: whatever the connectors, the normalizer and the catalog do, every
\* failure decide surfaces, on either path, is the insufficient-evidence error
\* (ValueError); no other kind of error leaves decide.
C12_OnlyInsufficientEvidence ==
    (pc = "raised") =>
        /\ result.kind = "raise"
        /\ result.error = "ValueError"

-----------------------------------------------------------------------------
(* Properties of policy validation, checked under SpecStartup.             *)

\* Every weight, bonus and base of the policy is in [0,1] and every time
\* budget is a positive integer.
PolicyInRange ==
    /\ \A f \in PolicyFields : policy[f] >= 0 /\ policy[f] <= 100
    /\ \A f \in TimeFields : policy_ms[f].int /\ policy_ms[f].v >= 1

-----------------------------------------------------------------------------
(* Properties of the trace of collaborator calls, checked under Spec.      *)

ConnectorPorts == {"dco.fetch", "sigges.fetch", "nlp.infer"}
CatalogPorts == {"mapper.to_region_code", "mapper.to_comuna_name",
                 "mapper.to_region_name"}

\* The free texts of the request that are neither None nor empty, in order.
NonEmptyTexts ==
    (IF req.ges_text \in {None, ""} THEN <<>> ELSE <<req.ges_text>>)
    \o (IF req.noges_text \in {None, ""} THEN <<>> ELSE <<req.noges_text>>)

\* decide is past the step where the text-inference connector is or is not
\* called.
PastNlpStep == pc \in {"nlp_normalize", "alive_fuse", "complete", "returned", "raised"}

\* C15: the collaborator calls of one decide form a sequential trace without
\* retries.  No connector is called twice.  On the deceased path the registry
\* connector is called exactly once, first, and neither other connector is
\* called.  On the alive path the claims-system connector is called exactly
\* once, first; then the text-inference connector is called at most once,
\* exactly when some free text is non-empty, with exactly the non-empty texts,
\* whatever the claims-system call did and however much of the budget is left;
\* the catalog lookups come after every other call and after the fusion.
C15_SequentialTrace ==
    /\ \A port \in ConnectorPorts : Cardinality(CallsOf(port)) <= 1
    /\ Deceased =>
         /\ CallsOf("sigges.fetch") = {}
         /\ CallsOf("nlp.infer") = {}
         /\ (pc # "dco_fetch") => (Len(calls) >= 1 /\ calls[1].port = "dco.fetch")
    /\ Alive =>
         /\ CallsOf("dco.fetch") = {}
         /\ (pc # "sigges_fetch") => (Len(calls) >= 1 /\ calls[1].port = "sigges.fetch")
         /\ \A i \in CallsOf("nlp.infer") :
              /\ calls[i].arg = NonEmptyTexts
              /\ \E j \in CallsOf("sigges.fetch") : j < i
         /\ PastNlpStep => (CallsOf("nlp.infer") # {} <=> NonEmptyTexts # <<>>)
    /\ \A i \in 1..Len(calls) :
         (calls[i].port \in CatalogPorts) =>
             /\ core # NoCore
             /\ \A j \in 1..Len(calls) :
                  (calls[j].port \notin CatalogPorts) => j < i
    /\ (pc = "returned") =>
         /\ Len(calls) >= 4
         /\ calls[Len(calls) - 2].port = "mapper.to_region_code"
         /\ calls[Len(calls) - 1].port = "mapper.to_comuna_name"
         /\ calls[Len(calls)].port = "mapper.to_region_name"

\* The claims-system call failed after using up the whole soft budget, and the
\* text-inference connector was still called, once, with a deadline of zero
\* and the one non-empty text.
C15_Witness ==
    /\ Alive
    /\ req.ges_text = ""
    /\ req.noges_text = "noges"
    /\ Len(calls) >= 2
    /\ calls[1].port = "sigges.fetch"
    /\ calls[1].outcome = "TimeoutError"
    /\ calls[2].port = "nlp.infer"
    /\ calls[2].deadline_ms = 0
    /\ calls[2].arg = <<"noges">>
    /\ pc = "returned"

-----------------------------------------------------------------------------
(* Properties of the deadlines, checked under Spec.                        *)

\* The constructor's budget of the connector behind a port.
BudgetOf(port) ==
    CASE port = "dco.fetch" -> BUDGET_DCO_MS
      [] port = "sigges.fetch" -> BUDGET_SIGGES_MS
      [] port = "nlp.infer" -> BUDGET_NLP_MS

\* The soft budget not yet consumed by the time t (ms since decide started).
SoftBudgetLeft(t) == IF t >= GLOBAL_SOFT_MS THEN 0 ELSE GLOBAL_SOFT_MS - t

\* The step is a call of a connector: the trace grows by one connector call.
ConnectorCalled ==
    /\ Len(calls') = Len(calls) + 1
    /\ calls'[Len(calls')].port \in ConnectorPorts

\* C16: every connector call receives as deadline the lesser of the
\* connector's budget and the soft budget left when the call is made, which is
\* the global soft budget less the time elapsed since decide started, and at
\* least 0: so the deadline is between 0 and the connector's budget, no more
\* than the soft budget not yet consumed, and the deadline of the
\* text-inference call is cut by the time the claims-system call took.
C16_Deadline ==
    ConnectorCalled =>
        LET c == calls'[Len(calls')]
            d == c.deadline_ms
        IN  /\ d = IF BudgetOf(c.port) < SoftBudgetLeft(elapsed)
                   THEN BudgetOf(c.port) ELSE SoftBudgetLeft(elapsed)
            /\ 0 <= d
            /\ d <= BudgetOf(c.port)
            /\ d <= SoftBudgetLeft(elapsed)
            /\ (c.port \in {"dco.fetch", "sigges.fetch"}) => elapsed = 0
            /\ (c.port = "nlp.infer" /\ elapsed > GLOBAL_SOFT_MS - BUDGET_NLP_MS) => d = SoftBudgetLeft(elapsed)

C16_DeadlineOfEveryCall == [][C16_Deadline]_vars

\* The claims-system call took one tick, which left less of the soft budget
\* than the text-inference budget, and the text-inference call got what was
\* left as its deadline.
C16_Witness ==
    /\ Alive
    /\ Len(calls) >= 2
    /\ calls[1].port = "sigges.fetch"
    /\ calls[1].deadline_ms = BUDGET_SIGGES_MS
    /\ calls[Len(calls)].port = "nlp.infer"
    /\ calls[Len(calls)].deadline_ms > 0
    /\ calls[Len(calls)].deadline_ms < BUDGET_NLP_MS

-----------------------------------------------------------------------------
(* Properties of a failing normalizer on the alive path, checked under     *)
(* Spec.                                                                   *)

\* The normalizer was called on the address the connector behind the port had
\* just returned, and raised.
NormalizerFailedAfter(port) ==
    \E i \in CallsOf("normalizer.normalize") :
        /\ i > 1
        /\ calls[i].outcome # "return"
        /\ calls[i - 1].port = port
        /\ calls[i - 1].outcome = "return"

\* decide is past the fusion.
PastFusion == pc \in {"complete", "returned", "raised"}

\* The evidence the connector behind the port returned.
EvidenceReturnedBy(port) == calls[CHOOSE i \in CallsOf(port) : TRUE].ret

\* The local evidence still is what the connector behind the port returned,
\* but for the address, and none if the connector failed or was not called.
Unaffected(ev, port) ==
    IF CallsOf(port) = {} \/ Failed(port) \/ EvidenceReturnedBy(port) = NoneEv
    THEN ev = NoneEv
    ELSE /\ ev # NoneEv
         /\ ev.origin = EvidenceReturnedBy(port).origin
         /\ ev.comuna_code = EvidenceReturnedBy(port).comuna_code
         /\ ev.p_model = EvidenceReturnedBy(port).p_model

\* C17: on the alive path, when the normalizer raises while standardizing the
\* address of a source whose connector call succeeded, decide does not raise
\* the normalizer's error; that source's whole evidence, comuna included, and
\* its quality hint are discarded as if the connector had failed; the other
\* source's evidence is unaffected; and the fusion decides from the other
\* source alone, or raises insufficient evidence when that one has no comuna.
C17_NormalizerFailureDiscardsSource ==
    /\ (Alive /\ NormalizerFailedAfter("sigges.fetch")) =>
         /\ sigges_ev = NoneEv
         /\ q_sigges = None
         /\ (pc = "raised" /\ calls[Len(calls)].port = "normalizer.normalize")
                => result.error = "ValueError"
         /\ (PastNlpStep /\ pc # "nlp_normalize" /\ ~NormalizerFailedAfter("nlp.infer"))
                => Unaffected(nlp_ev, "nlp.infer")
         /\ PastFusion =>
              IF nlp_ev # NoneEv /\ nlp_ev.comuna_code \notin {None, ""}
              THEN /\ core.sources = <<"NLP">>
                   /\ core.comuna_code = nlp_ev.comuna_code
              ELSE /\ core = NoCore
                   /\ pc = "raised"
                   /\ result.error = "ValueError"
    /\ (Alive /\ NormalizerFailedAfter("nlp.infer")) =>
         /\ nlp_ev = NoneEv
         /\ q_nlp = None
         /\ (pc = "raised" /\ calls[Len(calls)].port = "normalizer.normalize")
                => result.error = "ValueError"
         /\ ~NormalizerFailedAfter("sigges.fetch") => Unaffected(sigges_ev, "sigges.fetch")
         /\ PastFusion =>
              IF sigges_ev # NoneEv /\ sigges_ev.comuna_code \notin {None, ""}
              THEN /\ core.sources = <<"SIGGES">>
                   /\ core.comuna_code = sigges_ev.comuna_code
              ELSE /\ core = NoCore
                   /\ pc = "raised"
                   /\ result.error = "ValueError"

\* The claims-system connector returned comuna 13101 with an address, the
\* normalizer raised on that address, the text-inference connector returned
\* comuna 05101, and decide returned a decision for 05101 from text inference
\* alone.
C17_Witness ==
    /\ Alive
    /\ Len(calls) >= 3
    /\ calls[1].port = "sigges.fetch"
    /\ calls[1].outcome = "return"
    /\ calls[1].ret.comuna_code = "13101"
    /\ calls[2].port = "normalizer.normalize"
    /\ calls[2].outcome = "DataQualityError"
    /\ calls[3].port = "nlp.infer"
    /\ calls[3].ret.comuna_code = "05101"
    /\ sigges_ev = NoneEv
    /\ pc = "returned"
    /\ result.decision.comuna_code = "05101"
    /\ result.decision.sources = <<"NLP">>

=============================================================================
